---- MODULE Spec2Model ----
(***************************************************************************)
(* INA3221 register-level driver (src/src/lib.rs, src/src/general.rs).     *)
(*                                                                         *)
(* The driver owns an I2C bus handle, a device address and three shunt     *)
(* resistor values.  Every public method is a short sequence of bus        *)
(* transactions (write_read for a register read, write for a register      *)
(* write).  The model runs one method at a time; each bus transaction is   *)
(* one step, so that a second bus master can be placed between the read    *)
(* and the write of a read-modify-write method.                            *)
(*                                                                         *)
(* The device behind the bus is a register file that returns the stored    *)
(* word on a read and stores the two data bytes of a 3-byte write.         *)
(***************************************************************************)
EXTENDS Integers, Sequences, FiniteSets, TLC

VARIABLES
    address,          \* Ina3221.address
    shunt_r1,         \* Ina3221.shunt_r1
    shunt_r2,         \* Ina3221.shunt_r2
    shunt_r3,         \* Ina3221.shunt_r3
    dev,              \* the device's registers: register address -> 16-bit word
    pc,               \* position of the running method: idle, read, write, done
    op,               \* the running method and its argument
    original_state,   \* the local `original_state` of a read-modify-write method
    result,           \* what the method returned
    bus,              \* the bus transactions the running method has issued
    pre,              \* dev[0] when the running method was called
    last_set,         \* the last setter that returned Ok since the session began
    calls,            \* number of methods called in this session
    ext               \* number of writes by another bus master

vars == <<address, shunt_r1, shunt_r2, shunt_r3, dev, pc, op, original_state,
          result, bus, pre, last_set, calls, ext>>

driver == <<address, shunt_r1, shunt_r2, shunt_r3>>

(***************************************************************************)
(* Bounds of the model.                                                    *)
(***************************************************************************)
\* methods called in one session
MaxCalls == 2
\* how many of ConfigPatterns the configuration register starts from
NumConfigs == 3
\* how many of RawPatterns a measurement register may hold
NumRaws == 10
\* how many of ResistorPatterns a shunt resistor may be configured to
NumResistors == 4
\* writes by another bus master in one session
MaxExternal == 1

(***************************************************************************)
(* 16-bit arithmetic as Rust's u16 operators compute it.                   *)
(***************************************************************************)
RECURSIVE BitAnd(_, _)
BitAnd(a, b) ==
    IF a = 0 \/ b = 0 THEN 0
    ELSE (a % 2) * (b % 2) + 2 * BitAnd(a \div 2, b \div 2)

RECURSIVE BitOr(_, _)
BitOr(a, b) ==
    IF a = 0 THEN b
    ELSE IF b = 0 THEN a
    ELSE (IF a % 2 = 1 \/ b % 2 = 1 THEN 1 ELSE 0) + 2 * BitOr(a \div 2, b \div 2)

RECURSIVE Pow2(_)
Pow2(n) == IF n = 0 THEN 1 ELSE 2 * Pow2(n - 1)

\* u16 << n
Shl(a, n) == (a * Pow2(n)) % 65536
\* u16 >> n
Shr(a, n) == a \div Pow2(n)
\* `as u8`
AsU8(a) == a % 256
\* `as i16` of a u16
AsI16(a) == IF a >= 32768 THEN a - 65536 ELSE a

U16 == 0 .. 65535

(***************************************************************************)
(* Inputs the model draws from.                                            *)
(***************************************************************************)
\* configuration register contents at the start of a session
ConfigPatterns == << \H7127, \HFFFF, \H1234, \H0000, \H8AD4, \H55AA, \HAA55 >>
ConfigValues == { ConfigPatterns[i] : i \in 1 .. NumConfigs }

\* measurement register contents
RawPatterns == << \H07F8, \HFFF8, \H0008, \H0050, \HFE6B, \H8000, \H7FFF,
                  \H0000, \HFFFF, \H0195, \HC350, \H8007, \H0007 >>
RawValues == { RawPatterns[i] : i \in 1 .. NumRaws }

\* shunt resistor values given to the builder (0 is accepted by the builder)
ResistorPatterns == << 10, 7, 0, 255, 1, 3 >>
ResistorValues == { ResistorPatterns[i] : i \in 1 .. NumResistors }

(***************************************************************************)
(* Enumerations (general.rs).                                              *)
(***************************************************************************)
\* OperatingMode's variants with their discriminants
OperatingMode ==
    [ PowerDown |-> 0, OneshotShunt |-> 1, OneshotBus |-> 2, OneshotShuntBus |-> 3,
      ContinuousShunt |-> 5, ContinuousBus |-> 6, ContinuousShuntBus |-> 7 ]

\* `value as u8` for an OperatingMode
OperatingMode_as_u8(value) == OperatingMode[value]

\* OperatingMode::from_primitive: the variant with this discriminant, else the
\* #[num_enum(default)] variant
OperatingMode_from_primitive(number) ==
    IF \E m \in DOMAIN OperatingMode : OperatingMode[m] = number
    THEN CHOOSE m \in DOMAIN OperatingMode : OperatingMode[m] = number
    ELSE "PowerDown"

\* AveragingMode's variants with their discriminants
AveragingMode ==
    [ Samples1 |-> 0, Samples4 |-> 1, Samples16 |-> 2, Samples64 |-> 3,
      Samples128 |-> 4, Samples256 |-> 5, Samples512 |-> 6, Samples1024 |-> 7 ]

\* `value as u8` for an AveragingMode
AveragingMode_as_u8(value) == AveragingMode[value]

\* AveragingMode::from_primitive
AveragingMode_from_primitive(number) ==
    IF \E m \in DOMAIN AveragingMode : AveragingMode[m] = number
    THEN CHOOSE m \in DOMAIN AveragingMode : AveragingMode[m] = number
    ELSE "Samples1"

(***************************************************************************)
(* Errors (lib.rs).                                                        *)
(***************************************************************************)
\* embedded_hal::i2c::ErrorKind
ErrorKinds == { "Bus", "ArbitrationLoss", "NoAcknowledge", "Overrun", "Other" }

\* the bus implementation's own errors; each classifies itself by kind()
BusErrors == { [kind |-> k] : k \in ErrorKinds }

\* impl From<T: I2cError> for Error
From(value) == [err |-> "I2cError", kind |-> value.kind]

(***************************************************************************)
(* What a method returns.                                                  *)
(***************************************************************************)
NoResult == [tag |-> "none", val |-> 0, variant |-> "", err |-> "", kind |-> ""]
OkUnit == [tag |-> "Ok", val |-> 0, variant |-> "", err |-> "", kind |-> ""]
OkInt(v) == [tag |-> "Ok", val |-> v, variant |-> "", err |-> "", kind |-> ""]
OkVariant(m) == [tag |-> "Ok", val |-> 0, variant |-> m, err |-> "", kind |-> ""]
Err(e) == [tag |-> "Err", val |-> 0, variant |-> "", err |-> e.err, kind |-> e.kind]
\* integer division by zero
Panic == [tag |-> "Panic", val |-> 0, variant |-> "", err |-> "", kind |-> ""]

(***************************************************************************)
(* Construction (lib.rs).                                                  *)
(***************************************************************************)
INA3221_DEFAULT_ADDR == 64

\* Ina3221::new
new == [address |-> INA3221_DEFAULT_ADDR, shunt_r1 |-> 10, shunt_r2 |-> 10, shunt_r3 |-> 10]

\* Ina3221::new_with_addr
new_with_addr(addr) == [address |-> addr, shunt_r1 |-> 10, shunt_r2 |-> 10, shunt_r3 |-> 10]

\* builder methods
With_shunt_r1(self, value) == [self EXCEPT !.shunt_r1 = value]
With_shunt_r2(self, value) == [self EXCEPT !.shunt_r2 = value]
With_shunt_r3(self, value) == [self EXCEPT !.shunt_r3 = value]

\* device addresses the INA3221 can be strapped to
Addresses == { 64, 65 }

(***************************************************************************)
(* The device on the bus.                                                  *)
(***************************************************************************)
Registers == { 0, 1, 2, 3, 4, 5, 6, 254, 255 }
DataRegisters == << 1, 2, 3, 4, 5, 6, 254, 255 >>

\* the two bytes the device sends for register reg, high byte first
DeviceRead(d, reg) == << d[reg] \div 256, d[reg] % 256 >>

\* the device after a write of buf = <<register, high byte, low byte>>; only the
\* configuration register is writable
DeviceWrite(d, buf) ==
    IF Len(buf) = 3 /\ buf[1] = 0 THEN [d EXCEPT ![0] = buf[2] * 256 + buf[3]] ELSE d

\* a register file: configuration c, the data registers holding RawPatterns
\* from the i-th on, one after the other
DeviceImage(c, i) ==
    [ r \in Registers |->
        IF r = 0 THEN c
        ELSE LET k == CHOOSE k \in 1 .. Len(DataRegisters) : DataRegisters[k] = r
             IN  RawPatterns[((i + k - 1) % NumRaws) + 1] ]

(***************************************************************************)
(* Transport (lib.rs).                                                     *)
(***************************************************************************)
\* read_u16: the value assembled from the two bytes read
read_u16(buf) == BitOr(Shl(buf[1], 8), buf[2])

\* variant of write_u16 that sends the whole low byte
write_u16_full_byte(reg, value) ==
    << reg, AsU8(Shr(value, 8)), AsU8(BitAnd(value, \HFF)) >>

\* write_u16: the 3 bytes handed to i2c.write
write_u16(reg, value) == << reg, AsU8(Shr(value, 8)), AsU8(BitAnd(value, \HF)) >>

\* one i2c.write_read(address, out, in) and one i2c.write(address, out)
\* (err is the kind of the bus's error, "" when the transaction succeeded)
WriteReadTxn(addr, out, inp, err) ==
    [kind |-> "write_read", addr |-> addr, out |-> out, inp |-> inp, err |-> err]
WriteTxn(addr, out, err) ==
    [kind |-> "write", addr |-> addr, out |-> out, inp |-> << >>, err |-> err]

(***************************************************************************)
(* Methods (general.rs, lib.rs): what each computes from what it read.     *)
(***************************************************************************)
\* reset: the value written to register 0x00
reset == \H8000

\* variant of power_mode that keeps two bits of the word
power_mode_two_bits(word) == OperatingMode_from_primitive(AsU8(BitAnd(word, 3)))

\* power_mode: the mode decoded from the configuration word read
power_mode(word) == OperatingMode_from_primitive(AsU8(BitAnd(word, 7)))

\* set_power_mode: new_state
set_power_mode(state, value) ==
    BitOr(BitAnd(state, \HFFFC), OperatingMode_as_u8(value))

\* averaging_mode: the mode decoded from the configuration word read
averaging_mode(word) == AveragingMode_from_primitive(AsU8(BitAnd(Shr(word, 9), 7)))

\* set_averaging_mode: new_state
set_averaging_mode(state, value) ==
    BitOr(BitAnd(state, \HF1FF), Shl(AveragingMode_as_u8(value), 9))

\* enable_all_channels .. disable_channel3: new_state
enable_all_channels(state) == BitOr(BitAnd(state, \H8FFF), Shl(7, 12))
disable_all_channels(state) == BitAnd(state, \H8FFF)
enable_channel1(state) == BitOr(BitAnd(state, \HBFFF), Shl(1, 14))
disable_channel1(state) == BitAnd(state, \HBFFF)
enable_channel2(state) == BitOr(BitAnd(state, \HDFFF), Shl(1, 13))
disable_channel2(state) == BitAnd(state, \HDFFF)
enable_channel3(state) == BitOr(BitAnd(state, \HEFFF), Shl(1, 12))
disable_channel3(state) == BitAnd(state, \HEFFF)

\* variant of signed_actual that shifts the unsigned word
signed_actual_unsigned(raw_value) == Shr(raw_value, 3)

\* (raw_value as i16) >> 3: the shift copies the sign bit into the three
\* vacated places
signed_actual(raw_value) ==
    AsI16(BitOr(Shr(raw_value, 3), IF raw_value >= 32768 THEN \HE000 ELSE 0))

\* read_shunt_volt and read_bus_volt: the value returned for the word read
read_shunt_volt(raw_value) == signed_actual(raw_value) * 40
read_bus_volt(raw_value) == signed_actual(raw_value) * 8

\* variant of DivI32 that rounds the quotient down
DivI32_floor(a, b) == a \div b

\* i32 / i32 for a divisor > 0: the quotient is truncated toward zero
DivI32(a, b) == IF a >= 0 THEN a \div b ELSE -((-a) \div b)

\* current_channelN: voltage / resistor
current_channel(voltage, resistor) ==
    IF resistor = 0 THEN Panic ELSE OkInt(DivI32(voltage, resistor))

(***************************************************************************)
(* The methods, by name.                                                   *)
(***************************************************************************)
M(name) == [name |-> name, arg |-> ""]
NoOp == M("")

Setters ==
    { [name |-> "set_power_mode", arg |-> m] : m \in DOMAIN OperatingMode }
    \cup { [name |-> "set_averaging_mode", arg |-> m] : m \in DOMAIN AveragingMode }

ChannelMethods ==
    { M(n) : n \in { "enable_all_channels", "disable_all_channels",
                     "enable_channel1", "disable_channel1", "enable_channel2",
                     "disable_channel2", "enable_channel3", "disable_channel3" } }

\* the read-modify-write methods
Mutators == Setters \cup ChannelMethods

Getters == { M("power_mode"), M("averaging_mode") }

ShuntMethods == { M("shunt_channel1"), M("shunt_channel2"), M("shunt_channel3") }
BusMethods == { M("bus_channel1"), M("bus_channel2"), M("bus_channel3") }
CurrentMethods == { M("current_channel1"), M("current_channel2"), M("current_channel3") }
IdMethods == { M("manufacturer_id"), M("die_id") }

MeasureMethods == ShuntMethods \cup BusMethods \cup CurrentMethods

Methods == { M("reset") } \cup Getters \cup Mutators \cup MeasureMethods \cup IdMethods

\* the register a method reads
RegisterOf(o) ==
    CASE o.name \in { "shunt_channel1", "current_channel1" } -> 1
      [] o.name = "bus_channel1" -> 2
      [] o.name \in { "shunt_channel2", "current_channel2" } -> 3
      [] o.name = "bus_channel2" -> 4
      [] o.name \in { "shunt_channel3", "current_channel3" } -> 5
      [] o.name = "bus_channel3" -> 6
      [] o.name = "manufacturer_id" -> 254
      [] o.name = "die_id" -> 255
      [] OTHER -> 0

\* the new_state a read-modify-write method computes from original_state
NewState(o, state) ==
    CASE o.name = "set_power_mode" -> set_power_mode(state, o.arg)
      [] o.name = "set_averaging_mode" -> set_averaging_mode(state, o.arg)
      [] o.name = "enable_all_channels" -> enable_all_channels(state)
      [] o.name = "disable_all_channels" -> disable_all_channels(state)
      [] o.name = "enable_channel1" -> enable_channel1(state)
      [] o.name = "disable_channel1" -> disable_channel1(state)
      [] o.name = "enable_channel2" -> enable_channel2(state)
      [] o.name = "disable_channel2" -> disable_channel2(state)
      [] o.name = "enable_channel3" -> enable_channel3(state)
      [] o.name = "disable_channel3" -> disable_channel3(state)

\* the shunt resistor current_channelN divides by
ResistorOf(o) ==
    CASE o.name = "current_channel1" -> shunt_r1
      [] o.name = "current_channel2" -> shunt_r2
      [] o.name = "current_channel3" -> shunt_r3

\* what a method that only reads returns for the word read
Returned(o, word) ==
    CASE o.name = "power_mode" -> OkVariant(power_mode(word))
      [] o.name = "averaging_mode" -> OkVariant(averaging_mode(word))
      [] o \in ShuntMethods -> OkInt(read_shunt_volt(word))
      [] o \in BusMethods -> OkInt(read_bus_volt(word))
      [] o \in CurrentMethods -> current_channel(read_shunt_volt(word), ResistorOf(o))
      [] o \in IdMethods -> OkInt(word)

\* variant of FirstStep in which a read-modify-write method skips its read
FirstStep_no_read(o) == IF o.name = "reset" \/ o.name = "enable_channel1" THEN "write" ELSE "read"

\* the first bus transaction of a method
FirstStep(o) == IF o.name = "reset" THEN "write" ELSE "read"

\* where a method goes after its register read succeeded
AfterRead(o) == IF o \in Mutators THEN "write" ELSE "done"

\* variant of AfterError in which a failed read does not end the method
AfterError_ignored(o) == IF o.name = "set_power_mode" THEN "write" ELSE "done"

\* where a method goes after a bus transaction failed (the `?` operator)
AfterError(o) == "done"

\* variant of WrittenValue computed from the register as it is at the write
WrittenValue_fresh == IF op.name = "reset" THEN reset ELSE NewState(op, dev[0])

\* the value the running method hands to write_u16
WrittenValue == IF op.name = "reset" THEN reset ELSE NewState(op, original_state)

(***************************************************************************)
(* Actions.                                                                *)
(***************************************************************************)
\* the caller invokes method o
Call(o) ==
    /\ pc = "idle"
    /\ calls < MaxCalls
    /\ op' = o
    /\ pc' = FirstStep(o)
    /\ original_state' = 0
    /\ result' = NoResult
    /\ bus' = << >>
    /\ pre' = dev[0]
    /\ calls' = calls + 1
    /\ UNCHANGED <<driver, dev, last_set, ext>>

\* read_u16 -> read_buf -> i2c.write_read succeeds
ReadOk ==
    /\ pc = "read"
    /\ LET reg == RegisterOf(op)
           buf == DeviceRead(dev, reg)
           value == read_u16(buf)
       IN  /\ bus' = Append(bus, WriteReadTxn(address, << reg >>, buf, ""))
           /\ pc' = AfterRead(op)
           /\ IF op \in Mutators
              THEN original_state' = value /\ UNCHANGED result
              ELSE result' = Returned(op, value) /\ UNCHANGED original_state
    /\ UNCHANGED <<driver, dev, op, pre, last_set, calls, ext>>

\* i2c.write_read fails with bus error e
ReadErr(e) ==
    /\ pc = "read"
    /\ bus' = Append(bus, WriteReadTxn(address, << RegisterOf(op) >>, << >>, e.kind))
    /\ result' = Err(From(e))
    /\ pc' = AfterError(op)
    /\ UNCHANGED <<driver, dev, op, original_state, pre, last_set, calls, ext>>

\* write_u16 -> i2c.write succeeds
WriteOk ==
    /\ pc = "write"
    /\ LET buf == write_u16(0, WrittenValue)
       IN  /\ bus' = Append(bus, WriteTxn(address, buf, ""))
           /\ dev' = DeviceWrite(dev, buf)
    /\ result' = OkUnit
    /\ pc' = "done"
    /\ UNCHANGED <<driver, op, original_state, pre, last_set, calls, ext>>

\* i2c.write fails with bus error e
WriteErr(e) ==
    /\ pc = "write"
    /\ bus' = Append(bus, WriteTxn(address, write_u16(0, WrittenValue), e.kind))
    /\ result' = Err(From(e))
    /\ pc' = AfterError(op)
    /\ UNCHANGED <<driver, dev, op, original_state, pre, last_set, calls, ext>>

\* the method has returned; the caller goes on
Return ==
    /\ pc = "done"
    /\ pc' = "idle"
    /\ last_set' = IF result.tag = "Ok" /\ op \in Setters THEN op ELSE NoOp
    /\ op' = NoOp
    /\ original_state' = 0
    /\ result' = NoResult
    /\ bus' = << >>
    /\ pre' = 0
    /\ UNCHANGED <<driver, dev, calls, ext>>

\* another bus master writes word v to the configuration register
ExternalWrite(v) ==
    /\ Len(ext) < MaxExternal
    /\ dev' = [dev EXCEPT ![0] = v]
    /\ ext' = Append(ext, [at |-> pc, call |-> calls, val |-> v, was |-> dev[0]])
    /\ UNCHANGED <<driver, pc, op, original_state, result, bus, pre, last_set, calls>>

(***************************************************************************)
(* Specifications.                                                         *)
(***************************************************************************)
Idle ==
    /\ pc = "idle"
    /\ op = NoOp
    /\ original_state = 0
    /\ result = NoResult
    /\ bus = << >>
    /\ pre = 0
    /\ last_set = NoOp
    /\ calls = 0
    /\ ext = << >>

Constructed(self) ==
    /\ address = self.address
    /\ shunt_r1 = self.shunt_r1
    /\ shunt_r2 = self.shunt_r2
    /\ shunt_r3 = self.shunt_r3

\* a driver built by new or new_with_addr in front of a device whose
\* configuration register holds any of ConfigValues
Init ==
    /\ \E a \in Addresses : Constructed(IF a = INA3221_DEFAULT_ADDR THEN new ELSE new_with_addr(a))
    /\ \E c \in ConfigValues : dev = DeviceImage(c, 0)
    /\ Idle

Next ==
    \/ \E o \in Methods : Call(o)
    \/ ReadOk
    \/ \E e \in BusErrors : ReadErr(e)
    \/ WriteOk
    \/ \E e \in BusErrors : WriteErr(e)
    \/ Return

Spec == Init /\ [][Next]_vars

(***************************************************************************)
(* power_mode and averaging_mode alone, in front of every configuration    *)
(* word.                                                                   *)
(***************************************************************************)
InitDecode ==
    /\ Constructed(new)
    /\ \E w \in U16 : dev = DeviceImage(w, 0)
    /\ Idle

NextDecode ==
    \/ \E o \in Getters : Call(o)
    \/ ReadOk

SpecDecode == InitDecode /\ [][NextDecode]_vars

(***************************************************************************)
(* The voltage reads alone, every measurement register holding the same    *)
(* word, for every word.                                                   *)
(***************************************************************************)
InitMeas ==
    /\ Constructed(new)
    /\ \E w \in U16 : dev = [r \in Registers |-> IF r = 0 THEN \H7127 ELSE w]
    /\ Idle

NextMeas ==
    \/ \E o \in ShuntMethods \cup BusMethods : Call(o)
    \/ ReadOk

SpecMeas == InitMeas /\ [][NextMeas]_vars

(***************************************************************************)
(* The current reads, for drivers built with every combination of          *)
(* ResistorValues.                                                         *)
(***************************************************************************)
InitCurrent ==
    /\ \E r1, r2, r3 \in ResistorValues :
          Constructed(With_shunt_r3(With_shunt_r2(With_shunt_r1(new, r1), r2), r3))
    /\ \E i \in 0 .. NumRaws - 1 : dev = DeviceImage(\H7127, i)
    /\ Idle

NextCurrent ==
    \/ \E o \in CurrentMethods : Call(o)
    \/ ReadOk
    \/ \E e \in BusErrors : ReadErr(e)
    \/ Return

SpecCurrent == InitCurrent /\ [][NextCurrent]_vars

(***************************************************************************)
(* One read-modify-write method with a second bus master writing the       *)
(* configuration register at any point.                                    *)
(***************************************************************************)
NextExt ==
    \/ \E o \in Mutators : Call(o)
    \/ ReadOk
    \/ WriteOk
    \/ \E v \in ConfigValues : ExternalWrite(v)

SpecExt == Init /\ [][NextExt]_vars

(***************************************************************************)
(* Properties.                                                             *)
(***************************************************************************)
\* bit n of word w
Bit(w, n) == (w \div Pow2(n)) % 2

\* words w and v agree on every bit outside the set of bit positions f
SameOutside(w, v, f) == \A n \in (0 .. 15) \ f : Bit(w, n) = Bit(v, n)

\* the 16-bit word two bytes read from the bus stand for
WordOf(bytes) == bytes[1] * 256 + bytes[2]

\* the running method has returned Ok
ReturnedOk(name) == pc = "done" /\ op.name = name /\ result.tag = "Ok"

(* C1: for every operating mode X and every prior configuration word, a
   successful set_power_mode(X) leaves the device register's bits outside
   [2:0] as they were, and a power_mode() that follows returns X. *)
C1_SetPowerModeRoundTrip ==
    /\ ReturnedOk("set_power_mode") => SameOutside(dev[0], pre, {0, 1, 2})
    /\ (ReturnedOk("power_mode") /\ last_set.name = "set_power_mode")
          => result.variant = last_set.arg

(* C2: for each of the 8 averaging modes X and every prior configuration
   word, a successful set_averaging_mode(X) followed by averaging_mode()
   returns X, the field is bits [8:6] of the register, and the register's
   bits outside [8:6] are as before. *)
C2_AveragingBits8to6 ==
    /\ ReturnedOk("set_averaging_mode") =>
          /\ (dev[0] \div 64) % 8 = AveragingMode[op.arg]
          /\ SameOutside(dev[0], pre, {6, 7, 8})
    /\ (ReturnedOk("averaging_mode") /\ last_set.name = "set_averaging_mode")
          => result.variant = last_set.arg

\* the word a channel method is to leave in the register
ChannelExpected(name, w) ==
    LET set(v, n) == IF Bit(v, n) = 1 THEN v ELSE v + Pow2(n)
        clear(v, n) == IF Bit(v, n) = 1 THEN v - Pow2(n) ELSE v
    IN  CASE name = "enable_channel1" -> set(w, 14)
          [] name = "enable_channel2" -> set(w, 13)
          [] name = "enable_channel3" -> set(w, 12)
          [] name = "disable_channel1" -> clear(w, 14)
          [] name = "disable_channel2" -> clear(w, 13)
          [] name = "disable_channel3" -> clear(w, 12)
          [] name = "enable_all_channels" -> set(set(set(w, 14), 13), 12)
          [] name = "disable_all_channels" -> clear(clear(clear(w, 14), 13), 12)

(* C3: for every prior configuration word, enable_channelN / disable_channelN
   sets / clears exactly bit 14 / 13 / 12, enable_all_channels and
   disable_all_channels set bits [14:12] to 111 and 000, and every other bit
   of the device register is as before the call. *)
C3_ChannelFrame ==
    (pc = "done" /\ op \in ChannelMethods /\ result.tag = "Ok")
        => dev[0] = ChannelExpected(op.name, pre)

(* C4: every write transaction carries exactly the 3 bytes
   [register, value >> 8, value & 0x0F] to the configured device address, the
   top four bits of the last byte being zero; value 0x1234 to register 0x00
   goes out as [0x00, 0x12, 0x04] and reset() as [0x00, 0x80, 0x00]. *)
C4_WirePayload ==
    /\ \A i \in 1 .. Len(bus) :
          bus[i].kind = "write" =>
              /\ bus[i].addr = address
              /\ bus[i].out = << 0, WrittenValue \div 256, WrittenValue % 16 >>
              /\ bus[i].out[3] < 16
              /\ (WrittenValue = 4660 => bus[i].out = << 0, 18, 4 >>)
              /\ (op.name = "reset" => bus[i].out = << 0, 128, 0 >>)
    /\ \A reg \in Registers :
          write_u16(reg, dev[reg]) = << reg, dev[reg] \div 256, dev[reg] % 16 >>

\* enable_channel3 on a register holding 0x1234 has written 0x1234 back
C4_Witness ==
    /\ ReturnedOk("enable_channel3")
    /\ pre = 4660
    /\ address = 65
    /\ bus[2].out = << 0, 18, 4 >>

\* what bits [2:0] of the configuration register decode to
ModeTable ==
    << "PowerDown", "OneshotShunt", "OneshotBus", "OneshotShuntBus",
       "PowerDown", "ContinuousShunt", "ContinuousBus", "ContinuousShuntBus" >>

(* C5: for every 16-bit configuration word, power_mode() returns the mode
   whose wire value is bits [2:0] of the word, raw value 4 giving PowerDown;
   no other bit of the word has a say. *)
C5_PowerModeDecode ==
    ReturnedOk("power_mode") => result.variant = ModeTable[(dev[0] % 8) + 1]

\* power_mode() has decoded a word with bits [2:0] = 4 and other bits set
C5_Witness ==
    /\ ReturnedOk("power_mode")
    /\ dev[0] = \HFFFC
    /\ result.variant = "PowerDown"

\* the register shunt_channelN / bus_channelN is to read
VoltageRegister ==
    [ shunt_channel1 |-> 1, bus_channel1 |-> 2, shunt_channel2 |-> 3,
      bus_channel2 |-> 4, shunt_channel3 |-> 5, bus_channel3 |-> 6 ]

(* C6: for every 16-bit raw word r, shunt_channelN() returns 40 * s and
   bus_channelN() returns 8 * s, s being floor(signed(r) / 8), read from
   registers 1, 3, 5 (shunt) and 2, 4, 6 (bus); 0x07F8 gives 10200 uV,
   0xFFF8 gives -40 uV and bus raw 0x0008 gives 8 mV. *)
C6_VoltageDecode ==
    (pc = "done" /\ op \in ShuntMethods \cup BusMethods /\ result.tag = "Ok") =>
        LET reg == VoltageRegister[op.name]
            r == dev[reg]
            signed == IF r < 32768 THEN r ELSE r - 65536
            lsb == IF op \in ShuntMethods THEN 40 ELSE 8
        IN  /\ bus[1].out = << reg >>
            /\ result.val % lsb = 0
            /\ 8 * (result.val \div lsb) <= signed
            /\ signed < 8 * (result.val \div lsb) + 8
            /\ (r = 2040 /\ op \in ShuntMethods => result.val = 10200)
            /\ (r = 65528 /\ op \in ShuntMethods => result.val = -40)
            /\ (r = 8 /\ op \in BusMethods => result.val = 8)

\* shunt_channel2() has decoded the raw word 0xFFF8 to -40
C6_Witness ==
    /\ ReturnedOk("shunt_channel2")
    /\ dev[3] = 65528
    /\ result.val = -40

\* the shunt register and the resistor current_channelN is to use
CurrentRegister == [ current_channel1 |-> 1, current_channel2 |-> 3, current_channel3 |-> 5 ]
CurrentResistor ==
    [ current_channel1 |-> shunt_r1, current_channel2 |-> shunt_r2,
      current_channel3 |-> shunt_r3 ]

Abs(x) == IF x < 0 THEN -x ELSE x

(* C7: for every channel N, raw shunt word and non-zero resistor R_N,
   current_channelN() returns shunt_channelN() / R_N with the quotient
   truncated toward zero (also for negative voltages), and fails only if the
   shunt register read fails. *)
C7_CurrentTruncates ==
    (pc = "done" /\ op \in CurrentMethods /\ CurrentResistor[op.name] # 0) =>
        LET R == CurrentResistor[op.name]
            v == read_shunt_volt(dev[CurrentRegister[op.name]])
            q == result.val
        IN  /\ bus[1].out = << CurrentRegister[op.name] >>
            /\ result.tag = IF bus[1].err = "" THEN "Ok" ELSE "Err"
            /\ result.tag = "Ok" =>
                  /\ Abs(q) * R <= Abs(v)
                  /\ Abs(v) < (Abs(q) + 1) * R
                  /\ (v >= 0 => q >= 0)
                  /\ (v <= 0 => q <= 0)
                  /\ (v = 400 /\ R = 10 => q = 40)

\* current_channel2() has divided a negative voltage by its own resistor, 7,
\* with a remainder
C7_Witness ==
    /\ ReturnedOk("current_channel2")
    /\ shunt_r2 = 7
    /\ shunt_r1 # 7
    /\ result.val < 0
    /\ result.val * 7 # read_shunt_volt(dev[3])

(* C8: when a bus transaction fails the method returns at once with the
   transport error carrying the bus's classification, returns no value and
   issues no further transaction; a read-modify-write method whose read
   fails issues no write and leaves the configuration register as it was. *)
C8_ErrorPropagation ==
    \A i \in 1 .. Len(bus) :
        bus[i].err # "" =>
            /\ i = Len(bus)
            /\ pc = "done"
            /\ result = [tag |-> "Err", val |-> 0, variant |-> "",
                         err |-> "I2cError", kind |-> bus[i].err]
            /\ (bus[i].kind = "write_read" /\ op \in Mutators) =>
                  /\ dev[0] = pre
                  /\ \A j \in 1 .. Len(bus) : bus[j].kind # "write"

\* enable_channel2's read of register 0 was not acknowledged
C8_Witness ==
    /\ pc = "done"
    /\ op.name = "enable_channel2"
    /\ Len(bus) = 1
    /\ bus[1].err = "NoAcknowledge"
    /\ result.tag = "Err"
    /\ result.kind = "NoAcknowledge"

(* C9: a method that returns Ok has issued a fixed sequence of bus
   transactions: one write-then-read of 2 bytes for a getter, a measurement
   read or an id read; one write and no read for reset(); one write-then-read
   of register 0 followed by one write to register 0 for a read-modify-write
   method, the value written computed from the word just read. *)
C9_TransactionSequence ==
    (pc = "done" /\ result.tag = "Ok") =>
        IF op.name = "reset"
        THEN bus = << [kind |-> "write", addr |-> address, out |-> << 0, 128, 0 >>,
                       inp |-> << >>, err |-> ""] >>
        ELSE IF op \in Mutators
        THEN /\ Len(bus) = 2
             /\ bus[1] = [kind |-> "write_read", addr |-> address, out |-> << 0 >>,
                          inp |-> << pre \div 256, pre % 256 >>, err |-> ""]
             /\ bus[2].kind = "write"
             /\ bus[2].addr = address
             /\ bus[2].err = ""
             /\ bus[2].out = write_u16(0, NewState(op, WordOf(bus[1].inp)))
        ELSE /\ Len(bus) = 1
             /\ bus[1].kind = "write_read"
             /\ bus[1].addr = address
             /\ bus[1].out = << RegisterOf(op) >>
             /\ bus[1].inp = << dev[RegisterOf(op)] \div 256, dev[RegisterOf(op)] % 256 >>
             /\ bus[1].err = ""

\* set_averaging_mode has returned Ok after its read and its write
C9_Witness ==
    /\ ReturnedOk("set_averaging_mode")
    /\ Len(bus) = 2
    /\ bus[1].kind = "write_read"
    /\ bus[2].kind = "write"

(* C10: when another bus master writes the configuration register between
   a read-modify-write method's read and its write, the method returns Ok,
   the word it writes is computed from the stale word it read, and the
   register then holds that word: the other master's write is gone. *)
C10_LostUpdate ==
    (pc = "done" /\ op \in Mutators /\ \E i \in 1 .. Len(ext) : ext[i].at = "write") =>
        /\ result.tag = "Ok"
        /\ bus[2].out = write_u16(0, NewState(op, WordOf(bus[1].inp)))
        /\ (\A i \in 1 .. Len(ext) : ext[i].at # "done")
              => dev[0] = bus[2].out[2] * 256 + bus[2].out[3]

\* enable_channel2 read 0x1234, another master then wrote 0xFFFF, and the
\* register ends as 0x3204
C10_Witness ==
    /\ ReturnedOk("enable_channel2")
    /\ pre = 4660
    /\ Len(ext) = 1
    /\ ext[1].at = "write"
    /\ ext[1].was = 4660
    /\ ext[1].val = 65535
    /\ dev[0] = 12804
====
